---- MODULE Spec2Model ----
(***************************************************************************)
(* Model of the 3D text intersection add-on (src/src.py): the two          *)
(* operators Model_mesh and Export_model and the helper functions they     *)
(* call, run against a model of the host scene (bpy.data.objects, the      *)
(* active object, the selection, the interaction mode).                    *)
(*                                                                         *)
(* Python floats are modelled as exact rationals <<n, d>> in lowest terms; *)
(* float rounding is not modelled.  Geometry is modelled by axis-aligned   *)
(* bounding boxes, which is all the add-on ever reads (obj.dimensions).    *)
(* A Python exception is the field err of the run record: once it is set   *)
(* every later step of the handler is skipped.                             *)
(***************************************************************************)
EXTENDS Integers, Sequences, FiniteSets, TLC

VARIABLES
    objects,        \* bpy.data.objects: reference -> object
    active,         \* bpy.context.object: a reference, 0 for None
    mode,           \* the interaction mode, "OBJECT" or "EDIT"
    fonts,          \* bpy.data.fonts: the paths of the fonts loaded
    files,          \* the files written
    log,            \* the host calls of the last operator run
    result,         \* what the last operator run returned, or the exception it raised
    last,           \* the last operator run and, for Export, its properties
    exports,        \* the Exports run since Model last rebuilt the scene
    props,          \* the properties entered in the Model dialog
    hostEmptyDim    \* the dimension the host reports for a mesh without geometry

vars == <<objects, active, mode, fonts, files, log, result, last, exports, props,
          hostEmptyDim>>

(***************************************************************************)
(* Bounds of the model.                                                    *)
(***************************************************************************)
MaxLen == 2
MaxExports == 2

(***************************************************************************)
(* Rationals: the values of Python float expressions.                      *)
(***************************************************************************)
RECURSIVE GCD(_, _)
GCD(a, b) == IF b = 0 THEN a ELSE GCD(b, a % b)

Abs(n) == IF n < 0 THEN -n ELSE n

\* n / d in lowest terms with a positive denominator; there is no such
\* value for d = 0, which every caller excludes before it divides
Frac(n, d) ==
    IF d = 0 THEN <<n, 0>>
    ELSE LET g == GCD(Abs(n), Abs(d))
             sg == IF d < 0 THEN -1 ELSE 1
         IN  <<(sg * n) \div g, (sg * d) \div g>>

RInt(n) == <<n, 1>>
RAdd(a, b) == Frac(a[1] * b[2] + b[1] * a[2], a[2] * b[2])
RSub(a, b) == Frac(a[1] * b[2] - b[1] * a[2], a[2] * b[2])
RMul(a, b) == Frac(a[1] * b[1], a[2] * b[2])
\* a / b, only used where b # 0 has been tested
RDiv(a, b) == Frac(a[1] * b[2], a[2] * b[1])
RLe(a, b) == a[1] * b[2] <= b[1] * a[2]
RMin(a, b) == IF RLe(a, b) THEN a ELSE b
RMax(a, b) == IF RLe(a, b) THEN b ELSE a
RIsZero(a) == a[1] = 0
R0 == RInt(0)
R1 == RInt(1)

(***************************************************************************)
(* Bounding boxes: e is TRUE for a mesh without geometry, x, y, z are the  *)
(* intervals <<lo, hi>> of the geometry relative to the object's origin,   *)
(* along the world axes, before the object's scale is applied.             *)
(***************************************************************************)
NoBox == [e |-> TRUE, x |-> <<R0, R0>>, y |-> <<R0, R0>>, z |-> <<R0, R0>>]

Box(x, y, z) == [e |-> FALSE, x |-> x, y |-> y, z |-> z]

Extent(iv) == RSub(iv[2], iv[1])

ShiftIv(iv, d) == <<RAdd(iv[1], d), RAdd(iv[2], d)>>

\* the box moved by the vector v
Shift(b, v) ==
    IF b.e THEN b ELSE Box(ShiftIv(b.x, v[1]), ShiftIv(b.y, v[2]), ShiftIv(b.z, v[3]))

VSub(u, v) == <<RSub(u[1], v[1]), RSub(u[2], v[2]), RSub(u[3], v[3])>>

HullIv(i, j) == <<RMin(i[1], j[1]), RMax(i[2], j[2])>>
MeetIv(i, j) == <<RMax(i[1], j[1]), RMin(i[2], j[2])>>

\* bounding box of the boolean union of two meshes
Hull(a, b) ==
    IF a.e THEN b
    ELSE IF b.e THEN a
    ELSE Box(HullIv(a.x, b.x), HullIv(a.y, b.y), HullIv(a.z, b.z))

\* an interval that encloses some volume
Thick(iv) == ~RLe(iv[2], iv[1])

\* bounding box of the boolean intersection of two meshes: no geometry is
\* left when the boxes share no volume
Meet(a, b) ==
    IF a.e \/ b.e THEN NoBox
    ELSE LET x == MeetIv(a.x, b.x)
             y == MeetIv(a.y, b.y)
             z == MeetIv(a.z, b.z)
         IN  IF Thick(x) /\ Thick(y) /\ Thick(z) THEN Box(x, y, z) ELSE NoBox

(***************************************************************************)
(* The run record s threads the host state through a handler:              *)
(*   objects  id -> object record (bpy.data.objects; ids stand for the     *)
(*            Python references the script keeps across renames)           *)
(*   active   id of bpy.context.object, 0 for None                         *)
(*   mode     "OBJECT" or "EDIT"                                           *)
(*   fonts    paths of the fonts loaded into bpy.data.fonts                *)
(*   files    paths of the files written                                   *)
(*   log      the host operator calls of the run, in order                 *)
(*   err      the pending Python exception, "none" when there is none      *)
(*   ret      the value returned by the Python function just called        *)
(***************************************************************************)
Ok(s) == s.err = "none"

Raise(s, exc) == [s EXCEPT !.err = exc]

Ids(s) == DOMAIN s.objects

Names(objs) == {objs[i].name : i \in DOMAIN objs}

\* one entry of the call log
Entry(site, op, obj, arg, text, loc, names, count) ==
    [site |-> site, op |-> op, obj |-> obj, arg |-> arg, text |-> text,
     loc |-> loc, names |-> names, count |-> count]

Origin == <<R0, R0, R0>>

Log(s, site, op, obj, arg, text, loc, names) ==
    [s EXCEPT !.log = Append(@, Entry(site, op, obj, arg, text, loc, names,
                                      Cardinality(DOMAIN s.objects)))]

\* the reference a newly created object gets
NewId(s) == CHOOSE i \in 1..(Cardinality(Ids(s)) + 1) : i \notin Ids(s)

Digits == <<"1", "2", "3", "4", "5", "6", "7", "8", "9">>

Suffix(k) == IF k = 0 THEN "" ELSE ".00" \o Digits[k]

\* the name the host gives an object asked to be called base: base itself,
\* or base with the first free numeric suffix when another object has it
UniqueName(objs, id, base) ==
    LET taken == {objs[j].name : j \in DOMAIN objs \ {id}}
        k == CHOOSE n \in 0..9 : /\ (base \o Suffix(n)) \notin taken
                                 /\ \A m \in 0..(n - 1) : (base \o Suffix(m)) \in taken
    IN  base \o Suffix(k)

\* obj.name = name
SetName(s, id, name) ==
    IF s.err # "none" THEN s
    ELSE IF id \notin Ids(s) THEN Raise(s, "AttributeError")
    ELSE [s EXCEPT !.objects[id].name = UniqueName(s.objects, id, name)]

\* bpy.data.objects[name]: the reference in ret, KeyError when there is none
Lookup(s, name) ==
    IF s.err # "none" THEN s
    ELSE IF name \notin Names(s.objects) THEN Raise(s, "KeyError")
    ELSE [s EXCEPT !.ret = CHOOSE i \in Ids(s) : s.objects[i].name = name]

\* bpy.context.view_layer.objects.active = bpy.data.objects[name]
SetActiveByName(s, name) ==
    LET s1 == Lookup(s, name)
    IN  IF s1.err # "none" THEN s1 ELSE [s1 EXCEPT !.active = s1.ret]

\* bpy.context.view_layer.objects.active = obj
SetActive(s, id) == IF s.err # "none" THEN s ELSE [s EXCEPT !.active = id]

(***************************************************************************)
(* Glyphs and text geometry.                                               *)
(***************************************************************************)
\* str.upper() of one character: a sequence, since it may grow ("sz" stands
\* for the one character U+00DF, whose upper case is the two characters SS)
UpperChar(c) ==
    CASE c = "a" -> <<"A">>
      [] c = "b" -> <<"B">>
      [] c = "c" -> <<"C">>
      [] c = "d" -> <<"D">>
      [] c = "sz" -> <<"S", "S">>
      [] OTHER -> <<c>>

\* str.upper()
RECURSIVE upper(_)
upper(w) == IF w = <<>> THEN <<>> ELSE UpperChar(Head(w)) \o upper(Tail(w))

\* advance width of a glyph at text size 3
GlyphWidth(c) == IF c = "S" THEN RInt(1) ELSE RInt(2)

RECURSIVE TextWidth(_)
TextWidth(w) == IF w = <<>> THEN R0 ELSE RAdd(GlyphWidth(Head(w)), TextWidth(Tail(w)))

\* height of the capitals at text size 3: the top platform is put 1.98 + 0.02
\* above the base line
GlyphHeight == 2

Half(r) == RDiv(r, RInt(2))
Neg(r) == RSub(R0, r)

\* the mesh of a text object standing upright (rotated 90 degrees about x),
\* centred on its origin (align_x CENTER), extruded to both sides; turned
\* about z for the second text
TextBox(body, extrude, rot) ==
    LET w == TextWidth(body)
        across == <<Neg(Half(w)), Half(w)>>
        along == <<RInt(-extrude), RInt(extrude)>>
        up == <<R0, RInt(GlyphHeight)>>
    IN  IF RIsZero(w) THEN NoBox
        ELSE IF rot = "X90" THEN Box(across, along, up)
        ELSE Box(along, across, up)

\* obj.dimensions: the extents along the object's own axes times its scale;
\* what the host reports for a mesh without geometry depends on the build
Dimensions(o) ==
    LET ex == IF o.box.e THEN RInt(hostEmptyDim) ELSE Extent(o.box.x)
        ey == IF o.box.e THEN RInt(hostEmptyDim) ELSE Extent(o.box.y)
        ez == IF o.box.e THEN RInt(hostEmptyDim) ELSE Extent(o.box.z)
        own == CASE o.rot = "X90" -> <<ex, ez, ey>>
                 [] o.rot = "X90Z90" -> <<ey, ez, ex>>
                 [] OTHER -> <<ex, ey, ez>>
    IN  [x |-> RMul(own[1], o.scale), y |-> RMul(own[2], o.scale),
         z |-> RMul(own[3], o.scale)]

(***************************************************************************)
(* Host operators (bpy.ops, bpy.data).  A failed poll raises               *)
(* RuntimeError; an operator that merely reports a warning changes nothing.*)
(***************************************************************************)
\* a new scene object as the add operators leave it: the only selected one
NewObject(name, kind, loc, rot, box) ==
    [name |-> name, kind |-> kind, sel |-> TRUE, loc |-> loc, rot |-> rot,
     box |-> box, scale |-> R1, body |-> <<>>, extrude |-> 0, mods |-> <<>>,
     faces |-> {}]

DeselectAll(objs) == [i \in DOMAIN objs |-> [objs[i] EXCEPT !.sel = FALSE]]

\* bpy.ops.object.select_all(action='SELECT')
select_all(s, site) ==
    IF s.err # "none" THEN s
    ELSE IF s.mode # "OBJECT" THEN Raise(s, "RuntimeError")
    ELSE Log([s EXCEPT !.objects = [i \in DOMAIN @ |-> [@[i] EXCEPT !.sel = TRUE]]],
             site, "select_all", 0, 0, <<>>, Origin, {})

\* bpy.ops.object.delete(): removes the selected objects (the active object
\* only if it is selected); the active reference is cleared with its object
object_delete(s, site) ==
    IF s.err # "none" THEN s
    ELSE IF s.mode # "OBJECT" THEN Raise(s, "RuntimeError")
    ELSE LET gone == {i \in Ids(s) : s.objects[i].sel}
             keep == Ids(s) \ gone
             s1 == [s EXCEPT !.objects = [i \in keep |-> s.objects[i]],
                             !.active = IF s.active \in gone THEN 0 ELSE s.active]
         IN  Log(s1, site, "delete", 0, 0, <<>>, Origin,
                 {s.objects[i].name : i \in gone})

\* bpy.ops.object.text_add(location=...): a new text object "Text", selected
\* and active, everything else deselected
text_add(s, site, loc, rot) ==
    IF s.err # "none" THEN s
    ELSE IF s.mode # "OBJECT" THEN Raise(s, "RuntimeError")
    ELSE LET id == NewId(s)
             others == DeselectAll(s.objects)
             o == [NewObject(UniqueName(others, id, "Text"), "FONT", loc, rot, NoBox)
                       EXCEPT !.body = <<"T", "e", "x", "t">>]
             s1 == [s EXCEPT !.objects = (id :> o) @@ others, !.active = id]
         IN  Log(s1, site, "text_add", id, 0, <<>>, loc, {})

\* bpy.ops.object.convert(target='MESH'): the selected text objects become
\* meshes of their body
convert(s, site) ==
    IF s.err # "none" THEN s
    ELSE IF s.mode # "OBJECT" THEN Raise(s, "RuntimeError")
    ELSE LET turn(o) == IF o.sel /\ o.kind = "FONT"
                         THEN [o EXCEPT !.kind = "MESH",
                                        !.box = TextBox(o.body, o.extrude, o.rot)]
                         ELSE o
             s1 == [s EXCEPT !.objects = [i \in DOMAIN @ |-> turn(@[i])]]
             a == s.active
         IN  Log(s1, site, "convert", a, 0,
                 IF a \in Ids(s) THEN s.objects[a].body ELSE <<>>,
                 IF a \in Ids(s) THEN s.objects[a].loc ELSE Origin, {})

\* obj.modifiers.new(name, type) and the attributes set on the new modifier
modifiers_new(s, id, name, type, operation, operand) ==
    IF s.err # "none" THEN s
    ELSE IF id \notin Ids(s) THEN Raise(s, "AttributeError")
    ELSE [s EXCEPT !.objects[id].mods =
              Append(@, [name |-> name, type |-> type, operation |-> operation,
                         object |-> operand])]

\* the geometry a modifier leaves on object t
Modified(s, t, m) ==
    LET o == s.objects[t]
        other == IF m.object \in Ids(s)
                 THEN Shift(s.objects[m.object].box, VSub(s.objects[m.object].loc, o.loc))
                 ELSE NoBox
    IN  CASE m.type = "BOOLEAN" /\ m.operation = "INTERSECT" -> Meet(o.box, other)
          [] m.type = "BOOLEAN" /\ m.operation = "UNION" -> Hull(o.box, other)
          [] OTHER -> o.box

\* bpy.ops.object.modifier_apply(modifier=name): on the active object
modifier_apply(s, site, name) ==
    IF s.err # "none" THEN s
    ELSE IF s.mode # "OBJECT" \/ s.active \notin Ids(s) THEN Raise(s, "RuntimeError")
    ELSE LET t == s.active
             ms == s.objects[t].mods
             hit == {k \in 1..Len(ms) : ms[k].name = name}
         IN  IF hit = {} THEN Raise(s, "RuntimeError")
             ELSE LET k == CHOOSE k \in hit : \A j \in hit : k <= j
                      m == ms[k]
                      s1 == [s EXCEPT !.objects[t].box = Modified(s, t, m),
                                      !.objects[t].mods =
                                          SubSeq(ms, 1, k - 1) \o SubSeq(ms, k + 1, Len(ms))]
                  IN  Log(s1, site,
                          IF m.type = "BOOLEAN" THEN m.operation ELSE m.type,
                          t, m.object, <<>>, s.objects[t].loc, {})

\* bpy.ops.mesh.primitive_cube_add(enter_editmode=True, location, scale): a
\* cube "Cube" of half-extents scale, selected and active, in edit mode with
\* all its faces selected
primitive_cube_add(s, site, loc, scale) ==
    IF s.err # "none" THEN s
    ELSE IF s.mode # "OBJECT" THEN Raise(s, "RuntimeError")
    ELSE LET id == NewId(s)
             others == DeselectAll(s.objects)
             box == Box(<<Neg(scale[1]), scale[1]>>, <<Neg(scale[2]), scale[2]>>,
                        <<Neg(scale[3]), scale[3]>>)
             o == [NewObject(UniqueName(others, id, "Cube"), "MESH", loc, "NONE", box)
                       EXCEPT !.faces = 0..5]
             s1 == [s EXCEPT !.objects = (id :> o) @@ others, !.active = id,
                             !.mode = "EDIT"]
         IN  Log(s1, site, "primitive_cube_add", id, 0, <<>>, loc, {})

\* bpy.ops.mesh.select_all(action='DESELECT')
mesh_select_all(s, site) ==
    IF s.err # "none" THEN s
    ELSE IF s.mode # "EDIT" \/ s.active \notin Ids(s) THEN Raise(s, "RuntimeError")
    ELSE Log([s EXCEPT !.objects[s.active].faces = {}],
             site, "mesh.select_all", s.active, 0, <<>>, Origin, {})

\* bpy.ops.object.mode_set(mode=m)
mode_set(s, site, m) ==
    IF s.err # "none" THEN s
    ELSE IF s.active \notin Ids(s) THEN Raise(s, "RuntimeError")
    ELSE Log([s EXCEPT !.mode = m], site, "mode_set", s.active, 0, <<>>, Origin, {})

\* obj.data.polygons[k].select = True
polygon_select(s, id, k) ==
    IF s.err # "none" THEN s
    ELSE IF id \notin Ids(s) THEN Raise(s, "AttributeError")
    ELSE [s EXCEPT !.objects[id].faces = @ \cup {k}]

ScaleIv(iv, f) == <<RMul(iv[1], f), RMul(iv[2], f)>>

\* bpy.ops.transform.resize(value=(fx, fy, 1)) in edit mode: the selected
\* bottom (4) or top (5) face of the cube is scaled about its centre
transform_resize(s, site, fx, fy) ==
    IF s.err # "none" THEN s
    ELSE IF s.mode # "EDIT" \/ s.active \notin Ids(s) THEN Raise(s, "RuntimeError")
    ELSE LET o == s.objects[s.active]
             b == o.box
             face == Box(ScaleIv(b.x, fx), ScaleIv(b.y, fy), b.z)
             s1 == IF o.faces \cap {4, 5} = {} \/ b.e THEN s
                   ELSE [s EXCEPT !.objects[s.active].box = Hull(b, face)]
         IN  Log(s1, site, "transform.resize", s.active, 0, <<>>, Origin, {})

\* bpy.ops.object.join(): the selected meshes are merged into the active
\* object and removed; with no active mesh object the poll fails, with
\* nothing to merge the operator only warns
join(s, site) ==
    IF s.err # "none" THEN s
    ELSE IF s.mode # "OBJECT" \/ s.active \notin Ids(s) THEN Raise(s, "RuntimeError")
    ELSE IF s.objects[s.active].kind # "MESH" THEN Raise(s, "RuntimeError")
    ELSE LET t == s.active
             o == s.objects[t]
             part == {i \in Ids(s) \ {t} : s.objects[i].sel /\ s.objects[i].kind = "MESH"}
             RECURSIVE merged(_, _)
             merged(b, todo) ==
                 IF todo = {} THEN b
                 ELSE LET i == CHOOSE i \in todo : TRUE
                      IN  merged(Hull(b, Shift(s.objects[i].box,
                                               VSub(s.objects[i].loc, o.loc))),
                                 todo \ {i})
         IN  IF ~o.sel \/ part = {}
             THEN Log(s, site, "join", t, 0, <<>>, o.loc, {})
             ELSE Log([s EXCEPT !.objects =
                           [i \in Ids(s) \ part |->
                               IF i = t THEN [o EXCEPT !.box = merged(o.box, part)]
                               ELSE s.objects[i]]],
                      site, "join", t, 0, <<>>, o.loc,
                      {s.objects[i].name : i \in part})

\* bpy.ops.export_mesh.stl(filepath=file, ...): writes the scene's meshes
export_mesh_stl(s, site, file) ==
    IF s.err # "none" THEN s
    ELSE IF s.mode # "OBJECT" THEN Raise(s, "RuntimeError")
    ELSE Log([s EXCEPT !.files = @ \cup {file}], site, "export_mesh.stl", 0, 0,
             <<>>, Origin, Names(s.objects))

\* the font files the host can read
ValidFonts == {"AGENCYB.TTF"}

\* bpy.data.fonts.load(filepath=path): RuntimeError for an unreadable file
fonts_load(s, path) ==
    IF s.err # "none" THEN s
    ELSE IF path \notin ValidFonts THEN Raise(s, "RuntimeError")
    ELSE [s EXCEPT !.fonts = @ \cup {path}, !.ret = path]

(***************************************************************************)
(* The add-on's functions, statement by statement.  Each statement is a    *)
(* step from one run record to the next; a step does nothing once an       *)
(* exception is pending.                                                   *)
(***************************************************************************)
\* the statements of a block run in order, each on the run record its
\* predecessor leaves: the run record after the last
InOrder(runs) == runs[Len(runs)]

\* text_obj.data.body = txt
SetBody(s, id, txt) == IF s.err # "none" THEN s ELSE [s EXCEPT !.objects[id].body = txt]

\* text_obj.data.extrude = extrude_size
SetExtrude(s, id, e) == IF s.err # "none" THEN s ELSE [s EXCEPT !.objects[id].extrude = e]

\* return v
Return(s, v) == IF s.err # "none" THEN s ELSE [s EXCEPT !.ret = v]

\* bpy.context.object.location = v: AttributeError when there is no active object
SetLocation(s, site, v) ==
    IF s.err # "none" THEN s
    ELSE IF s.active \notin Ids(s) THEN Raise(s, "AttributeError")
    ELSE Log([s EXCEPT !.objects[s.active].loc = v],
             site, "set_location", s.active, 0, <<>>, v, {})

\* obj.dimensions of the object with reference id
DimensionsOf(s, id) == Dimensions(s.objects[id])

\* an entry recording the names in the scene when single_mesh is entered or left
LogScene(s, site, op, id) ==
    IF s.err # "none" THEN s ELSE Log(s, site, op, id, 0, <<>>, Origin, Names(s.objects))

\* clear_workspace with the delete left out
clear_workspace_nodelete(s) == select_all(s, "clear_workspace")

clear_workspace(s) ==
    object_delete(select_all(s, "clear_workspace"), "clear_workspace")

\* create_text_object from text_obj = bpy.context.object on; s is the run
\* after text_add
create_text_object_text_obj(s, txt, extrude_size, name) ==
    IF s.err # "none" THEN s
    ELSE LET text_obj == s.active
             s2 == SetBody(s, text_obj, txt)
             s3 == SetName(s2, text_obj, name)
             s4 == SetExtrude(s3, text_obj, extrude_size)
             s5 == convert(s4, "create_text_object")
         IN  InOrder(<<s2, s3, s4, s5, Return(s5, text_obj)>>)

\* rotation_z is 0 or 90 (degrees); ret is the created object
create_text_object(s, txt, extrude_size, name, rotation_z, centre_position, platform_height, font) ==
    create_text_object_text_obj(
        text_add(s, "create_text_object",
                 <<R0, RInt(centre_position), RSub(platform_height, Frac(2, 100))>>,
                 IF rotation_z = 0 THEN "X90" ELSE "X90Z90"),
        txt, extrude_size, name)

\* create_intersection_object from intersect_mesh = bpy.context.object on
create_intersection_object_intersect_mesh(s) ==
    IF s.err # "none" THEN s
    ELSE LET intersect_mesh == s.active
         IN  Return(SetName(s, intersect_mesh, "final mesh"), intersect_mesh)

\* create_intersection_object_mod selecting everything before it deletes
create_intersection_object_mod_selectall(s, fst_text) ==
    IF s.err # "none" THEN s
    ELSE LET s3 == modifiers_new(s, fst_text, "Intersection on first object",
                                 "BOOLEAN", "INTERSECT", s.ret)
             s4 == modifier_apply(s3, "create_intersection_object",
                                  "Intersection on first object")
             s5 == select_all(SetActiveByName(s4, "second text"),
                              "create_intersection_object")
             s6 == object_delete(s5, "create_intersection_object")
             s7 == SetActiveByName(s6, "first text")
         IN  InOrder(<<s3, s4, s5, s6, s7, create_intersection_object_intersect_mesh(s7)>>)

\* create_intersection_object from the new modifier on; s is the run after
\* the look-up of its operand, bpy.data.objects["second text"], kept in ret
create_intersection_object_mod(s, fst_text) ==
    IF s.err # "none" THEN s
    ELSE LET s3 == modifiers_new(s, fst_text, "Intersection on first object",
                                 "BOOLEAN", "INTERSECT", s.ret)
             s4 == modifier_apply(s3, "create_intersection_object",
                                  "Intersection on first object")
             s5 == SetActiveByName(s4, "second text")
             s6 == object_delete(s5, "create_intersection_object")
             s7 == SetActiveByName(s6, "first text")
         IN  InOrder(<<s3, s4, s5, s6, s7, create_intersection_object_intersect_mesh(s7)>>)

\* ret is the intersection object
create_intersection_object(s, fst_text) ==
    create_intersection_object_mod(
        Lookup(SetActiveByName(s, "first text"), "second text"), fst_text)

\* bpy.ops.transform.resize(value=(1 + platform_height * 4 / depth,
\* 1 + platform_height * 4 / width, 1)): the divisions come first
resize_face(s, site, platform_height, depth, width) ==
    IF s.err # "none" THEN s
    ELSE IF RIsZero(depth) \/ RIsZero(width) THEN Raise(s, "ZeroDivisionError")
    ELSE transform_resize(s, site,
             RAdd(R1, RDiv(RMul(platform_height, RInt(4)), depth)),
             RAdd(R1, RDiv(RMul(platform_height, RInt(4)), width)))

\* add_platform from the union modifier on; s is the run after the look-up of
\* its operand, bpy.data.objects["platform"], kept in ret
add_platform_union_mod(s, intersect_mesh) ==
    IF s.err # "none" THEN s
    ELSE LET s11 == modifiers_new(s, intersect_mesh,
                                  "Union of intersect mesh and platform",
                                  "BOOLEAN", "UNION", s.ret)
             s12 == modifier_apply(s11, "add_platform",
                                   "Union of intersect mesh and platform")
             s13 == SetActiveByName(s12, "platform")
             s14 == object_delete(s13, "add_platform")
         IN  InOrder(<<s11, s12, s13, s14, SetActive(s14, intersect_mesh)>>)

\* add_platform from platform_obj = bpy.context.object on; s is the run
\* after primitive_cube_add
add_platform_platform_obj(s, intersect_mesh, platform_height, width, depth, is_top_platform) ==
    IF s.err # "none" THEN s
    ELSE LET platform_obj == s.active
             s2 == SetName(s, platform_obj, "platform")
             s3 == mesh_select_all(s2, "add_platform")
             s4 == mode_set(s3, "add_platform", "OBJECT")
             s5 == polygon_select(s4, platform_obj, IF is_top_platform THEN 5 ELSE 4)
             s6 == mode_set(s5, "add_platform", "EDIT")
             s7 == resize_face(s6, "add_platform", platform_height, depth, width)
             s8 == mode_set(s7, "add_platform", "OBJECT")
             s9 == SetActive(s8, intersect_mesh)
         IN  InOrder(<<s2, s3, s4, s5, s6, s7, s8, s9,
                       add_platform_union_mod(Lookup(s9, "platform"), intersect_mesh)>>)

add_platform(s, intersect_mesh, centre_position, platform_height, width, depth, is_top_platform) ==
    add_platform_platform_obj(
        primitive_cube_add(s, "add_platform",
            <<R0, RInt(centre_position),
              IF is_top_platform THEN RAdd(Frac(198, 100), platform_height) ELSE R0>>,
            <<RAdd(Half(depth), Frac(2, 10)), RAdd(Half(width), Frac(2, 10)),
              platform_height>>),
        intersect_mesh, platform_height, width, depth, is_top_platform)

\* if with_platform: add_platform(..., True)
top_platform(s, with_platform, intersect_mesh, centre_position, platform_height, width, depth) ==
    IF s.err # "none" THEN s
    ELSE IF with_platform
    THEN add_platform(s, intersect_mesh, centre_position, platform_height, width, depth, TRUE)
    ELSE s

\* single_mesh_intersect_mesh adding the top platform before the bottom one
single_mesh_intersect_mesh_topfirst(s, with_platform, platform_height, centre_position) ==
    IF s.err # "none" THEN s
    ELSE LET intersect_mesh == s.ret
             width == DimensionsOf(s, intersect_mesh).z
             depth == DimensionsOf(s, intersect_mesh).x
         IN  LogScene(
                 add_platform(
                     top_platform(s, with_platform, intersect_mesh, centre_position,
                                  platform_height, width, depth),
                     intersect_mesh, centre_position, platform_height, width, depth,
                     FALSE),
                 "single_mesh", "return", intersect_mesh)

\* single_mesh from intersect_mesh = create_intersection_object(fst_text) on
single_mesh_intersect_mesh(s, with_platform, platform_height, centre_position) ==
    IF s.err # "none" THEN s
    ELSE LET intersect_mesh == s.ret
             \* get width and depth of object
             width == DimensionsOf(s, intersect_mesh).z
             depth == DimensionsOf(s, intersect_mesh).x
         IN  LogScene(
                 top_platform(
                     add_platform(s, intersect_mesh, centre_position, platform_height,
                                  width, depth, FALSE),
                     with_platform, intersect_mesh, centre_position, platform_height,
                     width, depth),
                 "single_mesh", "return", intersect_mesh)

\* single_mesh from fst_text = create_text_object(fst, ...) on
single_mesh_fst_text(s, fst, snd, with_platform, platform_height, font, centre_position) ==
    IF s.err # "none" THEN s
    ELSE single_mesh_intersect_mesh(
             create_intersection_object(
                 create_text_object(s, snd, Len(fst) * 2, "second text", 90,
                                    centre_position, platform_height, font),
                 s.ret),
             with_platform, platform_height, centre_position)

\* the "enter" and "return" entries record the scene around the call
single_mesh(s, fst, snd, with_platform, platform_height, font, centre_position) ==
    single_mesh_fst_text(
        create_text_object(LogScene(s, "single_mesh", "enter", 0), fst, Len(snd) * 2,
                           "first text", 0, centre_position, platform_height, font),
        fst, snd, with_platform, platform_height, font, centre_position)

\* for i in range(len(fst_word)): i counts from 0, sequences from 1
RECURSIVE letters_loop(_, _, _, _, _, _, _)
letters_loop(s, i, fst_word, snd_word, with_platform, platform_height, font) ==
    LET fst_length == Len(fst_word)
    IN  IF s.err # "none" \/ i >= fst_length THEN s
        ELSE IF i >= Len(snd_word) THEN Raise(s, "IndexError")
        ELSE letters_loop(
                 single_mesh(s, <<fst_word[i + 1]>>, <<snd_word[i + 1]>>, with_platform,
                             platform_height, font, i * 2 - (fst_length \div 2) - 2),
                 i + 1, fst_word, snd_word, with_platform, platform_height, font)

mesh_by_letters(s, fst_word, snd_word, with_platform, platform_height, font) ==
    letters_loop(s, 0, fst_word, snd_word, with_platform, platform_height, font)

\* the word or the letters, by the mode
meshes(s, fst, snd, by_letters, with_top_platform, platform_height, font) ==
    IF by_letters
    THEN mesh_by_letters(s, fst, snd, with_top_platform, platform_height, font)
    ELSE single_mesh(s, fst, snd, with_top_platform, platform_height, font, 0)

\* main from the join on: join all objects to one mesh, at the origin
main_join(s) ==
    IF s.err # "none" THEN s
    ELSE LET s1 == select_all(s, "main")
             s2 == join(s1, "main")
         IN  InOrder(<<s1, s2, SetLocation(s2, "main", Origin)>>)

main(s, fst, snd, by_letters, with_top_platform, platform_height, font) ==
    main_join(meshes(clear_workspace(s), fst, snd, by_letters, with_top_platform,
                     platform_height, font))

\* try: font = bpy.data.fonts.load(...) except RuntimeError: font = None;
\* ret is the font
load_font(s, font_path) ==
    LET s1 == fonts_load(s, font_path)
    IN  IF s1.err = "RuntimeError" THEN [s EXCEPT !.ret = "None"] ELSE s1

\* Model_mesh.execute from the call of main on; the font is in ret
Model_execute_font(s, fst, snd, by_letters, platform_height, with_top_platform) ==
    IF s.err # "none" THEN s
    ELSE main(s, upper(fst), upper(snd), by_letters, with_top_platform,
              RDiv(platform_height, RInt(10)), s.ret)

\* Model_mesh.execute rejecting words of different lengths in both modes
Model_execute_anymode(s, fst, snd, font_path, by_letters, platform_height, with_top_platform) ==
    IF ~(Len(fst) = Len(snd))
    THEN Return(s, "CANCELLED")
    ELSE Return(Model_execute_font(load_font(s, font_path), fst, snd, by_letters,
                                   platform_height, with_top_platform),
                "FINISHED")

\* Model_mesh.execute; platform_height is the property value (cm)
Model_execute(s, fst, snd, font_path, by_letters, platform_height, with_top_platform) ==
    IF by_letters /\ ~(Len(fst) = Len(snd))
    THEN Return(s, "CANCELLED")
    ELSE Return(Model_execute_font(load_font(s, font_path), fst, snd, by_letters,
                                   platform_height, with_top_platform),
                "FINISHED")

\* finalize_mesh from final_obj = bpy.data.objects["final mesh"] on:
\* scale = min(max_size / dimensions.x, .y, .z); final_obj.scale = (scale,) * 3
finalize_mesh_final_obj(s, max_size) ==
    IF s.err # "none" THEN s
    ELSE LET final_obj == s.ret
             d == DimensionsOf(s, final_obj)
         IN  IF RIsZero(d.x) \/ RIsZero(d.y) \/ RIsZero(d.z)
             THEN Raise(s, "ZeroDivisionError")
             ELSE Log([s EXCEPT !.objects[final_obj].scale =
                           RMin(RDiv(max_size, d.x),
                                RMin(RDiv(max_size, d.y), RDiv(max_size, d.z)))],
                      "finalize_mesh", "set_scale", final_obj, 0, <<>>, Origin, {})

\* finalize_mesh from final_mesh = bpy.context.object on
finalize_mesh_final_mesh(s, max_size) ==
    IF s.err # "none" THEN s
    ELSE LET final_mesh == s.active
             s2 == modifiers_new(s, final_mesh, "Decimate modifier", "DECIMATE",
                                 "DISSOLVE", 0)
             s3 == modifier_apply(s2, "finalize_mesh", "Decimate modifier")
         IN  InOrder(<<s2, s3, finalize_mesh_final_obj(Lookup(s3, "final mesh"), max_size)>>)

finalize_mesh(s, max_size) ==
    finalize_mesh_final_mesh(select_all(s, "finalize_mesh"), max_size)

export_to_stl(s, file) ==
    export_mesh_stl(select_all(s, "export_to_stl"), "export_to_stl", file)

\* Export_model.execute; max_size is the property value (cm)
Export_execute(s, filename, max_size) ==
    IF filename = ""
    THEN Return(s, "CANCELLED")
    ELSE Return(export_to_stl(finalize_mesh(s, RDiv(RInt(max_size), RInt(100))),
                              filename \o "\\export.stl"),
                "FINISHED")

(***************************************************************************)
(* The state machine.  The values entered in the Model dialog (the         *)
(* operator's properties) and the scene the user starts from are drawn in  *)
(* Init; the user then runs Model and Export from the panel in any order,  *)
(* any number of times, with any values in the Export dialog.              *)
(***************************************************************************)
Base == <<"a", "b", "c", "d">>

\* the words the user may enter: the prefixes of Base, and the one-letter
\* word whose upper case has two letters
Words == {SubSeq(Base, 1, k) : k \in 0..MaxLen} \cup {<<"sz">>}

FontPaths == {"", "AGENCYB.TTF"}

\* platform_height: FloatProperty(min=0.5, max=2, default=1)
PlatformHeights == {RInt(1)}

Filenames == {"", "C:\\out"}

\* max_size: IntProperty(min=1, max=100, default=10)
MaxSizes == {10, 20}

\* what a build of the host reports as a dimension of a mesh without geometry
EmptyDims == {0, 2}

\* names of objects the scene may hold before the add-on is first used
PreNames == {"Cube", "final mesh"}

UnitCube == Box(<<RInt(-1), R1>>, <<RInt(-1), R1>>, <<RInt(-1), R1>>)

\* a user scene holding one cube per name of ns, the one numbered a selected
\* and active
PreScene(ns, a) ==
    LET RECURSIVE build(_, _)
        build(todo, objs) ==
            IF todo = {} THEN objs
            ELSE LET n == CHOOSE n \in todo : TRUE
                     id == Cardinality(DOMAIN objs) + 1
                 IN  build(todo \ {n},
                           (id :> [NewObject(n, "MESH", Origin, "NONE", UnitCube)
                                       EXCEPT !.sel = (id = a)]) @@ objs)
    IN  build(ns, <<>>)

NoOp == [op |-> "none", filename |-> "", max_size |-> 0]

Init ==
    /\ \E ns \in SUBSET PreNames : \E a \in 0..Cardinality(ns) :
          /\ objects = PreScene(ns, a)
          /\ active = a
    /\ mode = "OBJECT"
    /\ fonts = {}
    /\ files = {}
    /\ log = <<>>
    /\ result = "none"
    /\ last = NoOp
    /\ exports = 0
    /\ props \in [fst : Words, snd : Words, font_path : FontPaths,
                  by_letters : BOOLEAN, platform_height : PlatformHeights,
                  with_top_platform : BOOLEAN]
    /\ hostEmptyDim \in EmptyDims

\* the run record at the start of a handler
Start ==
    [objects |-> objects, active |-> active, mode |-> mode, fonts |-> fonts,
     files |-> files, log |-> <<>>, err |-> "none", ret |-> "none"]

\* the state a handler leaves: what it returned, or the exception it raised
Finish(s) ==
    /\ objects' = s.objects
    /\ active' = s.active
    /\ mode' = s.mode
    /\ fonts' = s.fonts
    /\ files' = s.files
    /\ log' = s.log
    /\ result' = IF Ok(s) THEN s.ret ELSE s.err

\* the user confirms the Model dialog
Model ==
    /\ Finish(Model_execute(Start, props.fst, props.snd, props.font_path,
                            props.by_letters, props.platform_height,
                            props.with_top_platform))
    /\ last' = [NoOp EXCEPT !.op = "Model"]
    /\ exports' = IF objects' = objects THEN exports ELSE 0
    /\ UNCHANGED <<props, hostEmptyDim>>

\* the user confirms the Export dialog; poll: there is an active object
Export(filename, max_size) ==
    /\ active # 0
    /\ filename # "" => exports < MaxExports
    /\ Finish(Export_execute(Start, filename, max_size))
    /\ last' = [NoOp EXCEPT !.op = "Export", !.filename = filename, !.max_size = max_size]
    /\ exports' = IF filename # "" THEN exports + 1 ELSE exports
    /\ UNCHANGED <<props, hostEmptyDim>>

DoExport == \E filename \in Filenames, max_size \in MaxSizes : Export(filename, max_size)

Next == Model \/ DoExport

Spec == Init /\ [][Next]_vars

(***************************************************************************)
(* Properties.                                                             *)
(***************************************************************************)
Idx == 1..Len(log)

\* the Model dialog's validation rejects the words
Rejected == props.by_letters /\ Len(props.fst) # Len(props.snd)

\* the entries of the log with operator op
At(op) == {i \in Idx : log[i].op = op}

\* C1 (state part): Model returns CANCELLED exactly when by_letters is set and
\* the two words differ in length; in whole-word mode no pair is rejected
C1_CancelledIff ==
    last.op = "Model" => (result = "CANCELLED" <=> Rejected)

\* C1 (frame part): a Model run that returns CANCELLED leaves the scene as it
\* was: no host operator is called, no font is loaded, and no object is
\* created, deleted or renamed
C1_CancelledFrame ==
    (last'.op = "Model" /\ result' = "CANCELLED") =>
        /\ objects' = objects
        /\ active' = active
        /\ mode' = mode
        /\ fonts' = fonts
        /\ log' = <<>>

\* C1: Model_mesh.execute returns CANCELLED if and only if by_letters is set
\* and len(fst) # len(snd), and then the scene is left exactly as it was
C1_Cancelled == [](C1_CancelledIff) /\ [][C1_CancelledFrame]_vars

\* a rejected Model run on a scene that holds objects
C1_Witness ==
    /\ last.op = "Model"
    /\ result = "CANCELLED"
    /\ objects # <<>>
    /\ props.font_path \in ValidFonts

\* the union at entry i of the log is with a top platform: its cube was
\* added above the ground
IsTop(i) ==
    LET cubes == {j \in 1..(i - 1) : /\ log[j].op = "primitive_cube_add"
                                     /\ log[j].obj = log[i].arg}
        j == CHOOSE j \in cubes : \A k \in cubes : k <= j
    IN  cubes # {} /\ ~RIsZero(log[j].loc[3])

\* C3: the host operations of every run happen in the stated order: both
\* text meshes of a pair are created before its intersection, the
\* intersection is applied before the bottom-platform union, a top-platform
\* union happens only when with_top_platform is set and after the bottom one,
\* every pair is finished before the join, and in an Export the decimate
\* modifier is applied before the scale is set and the scale is set before
\* the STL file is written
C3_LinearOrder ==
    /\ \A i \in At("INTERSECT") :
          \E j, k \in 1..(i - 1) :
              /\ j < k
              /\ log[j].op = "convert" /\ log[j].obj = log[i].obj
              /\ log[k].op = "convert" /\ log[k].obj = log[i].arg
              /\ \A m \in j..i : log[m].op \notin {"UNION", "join", "delete"}
    /\ \A i \in At("UNION") :
          /\ \E j \in 1..(i - 1) : log[j].op = "INTERSECT" /\ log[j].obj = log[i].obj
          /\ IsTop(i) =>
                /\ props.with_top_platform
                /\ \E j \in 1..(i - 1) :
                      log[j].op = "UNION" /\ log[j].obj = log[i].obj /\ ~IsTop(j)
    /\ \A i \in At("join") :
          /\ \A k \in Idx : k > i => log[k].op = "set_location"
          /\ \A j \in 1..(i - 1) : log[j].op = "enter" =>
                \E k \in (j + 1)..(i - 1) : log[k].op = "return"
          /\ props.with_top_platform =>
                \A j \in 1..(i - 1) : log[j].op = "return" =>
                    \E k \in 1..(j - 1) :
                        log[k].op = "UNION" /\ log[k].obj = log[j].obj /\ IsTop(k)
    /\ \A i \in At("set_scale") : \E j \in 1..(i - 1) : log[j].op = "DECIMATE"
    /\ \A i \in At("export_mesh.stl") :
          \E j, k \in 1..(i - 1) :
              j < k /\ log[j].op = "DECIMATE" /\ log[k].op = "set_scale"

\* a finished by-letters run of several pairs with top platforms
C3_Witness ==
    /\ last.op = "Model"
    /\ result = "FINISHED"
    /\ props.by_letters /\ props.with_top_platform
    /\ Cardinality(At("INTERSECT")) >= 2
    /\ \E i \in At("UNION") : IsTop(i)
    /\ At("join") # {}

\* C4 (state part): after a Model run that returned FINISHED the scene holds
\* exactly one object, the mesh the run joined its pairs into, created by
\* this run and located at the origin
C4_OneObject ==
    (last.op = "Model" /\ result = "FINISHED") =>
        /\ Cardinality(DOMAIN objects) = 1
        /\ \A id \in DOMAIN objects :
              /\ objects[id].loc = Origin
              /\ objects[id].kind = "MESH"
              /\ id = active
              /\ \E i \in At("join") : log[i].obj = id
              /\ \E i \in At("text_add") : log[i].obj = id

\* C4 (step part): a second Model run right after a finished one leaves the
\* same set of objects
C4_Twice ==
    (last.op = "Model" /\ result = "FINISHED" /\ last'.op = "Model") =>
        (result' = "FINISHED" /\ Names(objects') = Names(objects))

EnterOf(i) ==
    CHOOSE j \in 1..(i - 1) :
        log[j].op = "enter" /\ \A k \in (j + 1)..(i - 1) : log[k].op # "enter"

\* C7: the two delete steps remove exactly the temporary object:
\* create_intersection_object deletes only "second text" and add_platform
\* only "platform"; and when single_mesh returns, no object is named
\* "second text" or "platform", the objects it found are still there, and the
\* object count has grown by exactly one
C7_DeleteFrame ==
    /\ \A i \in At("delete") :
          /\ log[i].site = "create_intersection_object" =>
                log[i].names = {"second text"} /\ log[i].count = log[i - 1].count - 1
          /\ log[i].site = "add_platform" =>
                log[i].names = {"platform"} /\ log[i].count = log[i - 1].count - 1
    /\ \A i \in At("return") :
          /\ "second text" \notin log[i].names
          /\ "platform" \notin log[i].names
          /\ log[EnterOf(i)].names \subseteq log[i].names
          /\ log[i].count = log[EnterOf(i)].count + 1
          /\ Cardinality(log[i].names) = log[i].count

\* single_mesh has returned for a second letter pair, with top platforms
C7_Witness ==
    /\ props.with_top_platform
    /\ \E i \in At("return") : log[i].count >= 2
    /\ \E i \in At("delete") : log[i].site = "add_platform" /\ log[i].count >= 2

\* C2: Export_model.execute with an empty filename returns CANCELLED and
\* calls nothing; with a non-empty filename it runs finalize_mesh and then
\* export_to_stl exactly once each and returns FINISHED
C2_ExportRuns ==
    last.op = "Export" =>
        IF last.filename = ""
        THEN result = "CANCELLED" /\ log = <<>>
        ELSE /\ result = "FINISHED"
             /\ Cardinality(At("set_scale")) = 1
             /\ Cardinality(At("export_mesh.stl")) = 1
             /\ \A i \in At("set_scale"), j \in At("export_mesh.stl") : i < j

\* the largest of the three dimensions of an object
MaxDim(o) ==
    LET d == Dimensions(o) IN RMax(d.x, RMax(d.y, d.z))

\* C5: after every successful Export with max_size M the largest dimension of
\* the final mesh equals M/100
C5_ScaledToMaxSize ==
    (last.op = "Export" /\ result = "FINISHED") =>
        \A id \in DOMAIN objects :
            objects[id].name = "final mesh" =>
                MaxDim(objects[id]) = Frac(last.max_size, 100)

\* C6: after every Model run that returns FINISHED the single remaining
\* object is named exactly "final mesh"
C6_FinalMeshName ==
    (last.op = "Model" /\ result = "FINISHED") => Names(objects) = {"final mesh"}

\* C8: for every pair of words that passes the length validation
\* Model_mesh.execute completes and returns FINISHED
C8_AlwaysFinishes ==
    (last.op = "Model" /\ ~Rejected) => result = "FINISHED"

\* the pairs a run built: the entries of its intersections, in order
Pairs == At("INTERSECT")

\* the body and the y-centre of the text mesh with reference id that was
\* converted last before entry i
BodyOf(i, id) ==
    LET c == {j \in 1..(i - 1) : log[j].op = "convert" /\ log[j].obj = id}
        j == CHOOSE j \in c : \A k \in c : k <= j
    IN  [text |-> log[j].text, centre |-> log[j].loc[2]]

\* C9: in by-letters mode with words of length n exactly n letter-pair models
\* are built, the i-th (from 0) from the upper-cased i-th letters of the two
\* words, at y-centre 2*i - n \div 2 - 2
C9_LetterPairs ==
    (last.op = "Model" /\ props.by_letters /\ ~Rejected) =>
        LET n == Len(props.fst)
        IN  /\ Cardinality(Pairs) = n
            /\ \A i \in 0..(n - 1) :
                  \E p \in Pairs :
                      /\ Cardinality({q \in Pairs : q < p}) = i
                      /\ BodyOf(p, log[p].obj).text = upper(<<props.fst[i + 1]>>)
                      /\ BodyOf(p, log[p].arg).text = upper(<<props.snd[i + 1]>>)
                      /\ BodyOf(p, log[p].obj).centre = RInt(2 * i - (n \div 2) - 2)

====
